---- MODULE Spec2Model ----
(***************************************************************************)
(* Model of the two scraping scripts of the repository:                    *)
(*   src/src/synchronous_script.py   (sequential mode)                     *)
(*   src/src/asynchronous_script.py  (concurrent mode, asyncio)            *)
(*                                                                         *)
(* A run is one execution of one of the scripts on an input list           *)
(* (urls.csv), a fixed remote web and an output directory data/.           *)
(* Text that the code transforms character by character (the title) is a   *)
(* sequence of one-character strings; attribute names and values, which    *)
(* the code only copies, are plain strings.                                *)
(***************************************************************************)
EXTENDS Integers, Sequences, FiniteSets, TLC

\* Longest input list (number of csv rows) that is explored.
MaxTargets == 2

\* Longest input list on which the sequential script alone is explored.
MaxSeqTargets == 3

\* Longest attribute table (number of rows) the extraction alone is run on.
MaxRows == 3

(***************************************************************************)
(* Documents                                                               *)
(***************************************************************************)

\* A table cell the selector may or may not find in a row (row.th, row.td).
Cell(t) == [has |-> TRUE, text |-> t]
NoCell == [has |-> FALSE, text |-> ""]

\* A <tr> of the attribute table.
Row(th, td) == [th |-> th, td |-> td]

\* A response body as BeautifulSoup sees it: the '.product_main' region
\* ("none": no such element, "noh1": element without an h1, "h1": with one),
\* the h1's text, and the rows matched by '.table.table-striped tr'.
Page(region, h1, rows) == [region |-> region, h1 |-> h1, rows |-> rows]

\* The remote web: what a GET of each URL of the model returns when the
\* network delivers a response.  "u8" is not a URL aiohttp/requests accept.
URLS == {"u1", "u2", "u3", "u4", "u5", "u6", "u7", "u8"}

ValidUrl(u) == u # "u8"

Pages ==
    [u \in URLS |->
        CASE u = "u1" -> Page("h1", <<"a", " ", "b">>, <<Row(Cell("k1"), Cell("v1"))>>)
          [] u = "u2" -> Page("h1", <<"a", " ", "b">>,
                              <<Row(Cell("k2"), Cell("v1")), Row(Cell("k1"), Cell("v2"))>>)
          [] u = "u3" -> Page("h1", <<"a", "_", "b">>,
                              <<Row(Cell("k1"), Cell("v1")), Row(Cell("k2"), Cell("v2")),
                                Row(Cell("k1"), Cell("v3"))>>)
          [] u = "u4" -> Page("h1", <<"c", " ", " ", "d">>, <<Row(Cell("k1"), Cell("v1"))>>)
          [] u = "u5" -> Page("h1", <<"c">>, <<>>)
          [] u = "u6" -> Page("none", <<>>, <<Row(Cell("k1"), Cell("v1"))>>)
          [] u = "u7" -> Page("h1", <<"d">>, <<Row(Cell("k1"), Cell("v1")), Row(Cell("k2"), NoCell)>>)
          [] OTHER    -> Page("none", <<>>, <<>>)]

\* The body a GET of u returns.
Web(u) == Pages[u]

(***************************************************************************)
(* Extractor (scrape, the lines after the fetch)                           *)
(***************************************************************************)

\* soup.select_one('.product_main').h1.text raises AttributeError when the
\* region or its h1 is missing.
book_name_ok(page) == page.region = "h1"

book_name(page) == page.h1

\* row.th.text / row.td.text raise AttributeError on a row without th or td.
RowOk(row) == row.th.has /\ row.td.has

RowsOk(rows) == \A j \in 1..Len(rows) : RowOk(rows[j])

\* A python dict as the ordered sequence of its (key, value) items.
DictKeys(d) == {d[j][1] : j \in 1..Len(d)}

\* Mutant of DictSet: d.setdefault(k, v), the first value of a key is kept.
DictSetFirstWins(d, k, v) == IF k \in DictKeys(d) THEN d ELSE Append(d, <<k, v>>)

\* d[k] = v : a new key is appended, an existing key keeps its position and
\* takes the new value.
DictSet(d, k, v) ==
    IF k \in DictKeys(d)
    THEN [j \in 1..Len(d) |-> IF d[j][1] = k THEN <<k, v>> ELSE d[j]]
    ELSE Append(d, <<k, v>>)

RECURSIVE DictOfRows(_, _)
DictOfRows(rows, d) ==
    IF rows = <<>> THEN d
    ELSE DictOfRows(Tail(rows), DictSet(d, Head(rows).th.text, Head(rows).td.text))

\* {row.th.text: row.td.text for row in rows}
product_info(page) == DictOfRows(page.rows, <<>>)

\* Whether lines 19-22 (async) / 16-19 (sync) complete without an exception.
ExtractOk(page) == book_name_ok(page) /\ RowsOk(page.rows)

(***************************************************************************)
(* Persister (save_product)                                                *)
(***************************************************************************)

\* Mutant of json_file_name: book_name.replace(' ', '_', 1), only the first
\* space replaced.
json_file_name_first(name) ==
    [j \in 1..Len(name) |->
        IF name[j] = " " /\ \A h \in 1..(j - 1) : name[h] # " " THEN "_" ELSE name[j]]

\* book_name.replace(' ', '_')
json_file_name(name) == [j \in 1..Len(name) |-> IF name[j] = " " THEN "_" ELSE name[j]]

\* f'data/{json_file_name}.json'
FilePath(name) == <<"data/">> \o json_file_name(name) \o <<".json">>

\* File contents: a complete JSON object (the dict's items in order), or what
\* open(..., 'w') leaves when the dump does not get through (a truncated file).
Json(d) == [complete |-> TRUE, items |-> d]
Truncated == [complete |-> FALSE, items |-> <<>>]

\* The directory with the file at path p holding content c.
WriteFile(fs, p, c) == [q \in DOMAIN fs \cup {p} |-> IF q = p THEN c ELSE fs[q]]

\* save_product under the three things the file system can do:
\*   "ok"    open and dump succeed;
\*   "open"  open(..., 'w') raises (missing directory, permission): nothing
\*           is changed;
\*   "write" open truncates/creates the file and the dump or the close raises.
\* The runs explored take "ok" or "write": a refused open leaves the
\* directory as a failed extraction does.
SaveOutcomes == {"ok", "write"}

\* Mutant of save_product: the file opened with mode 'a' instead of 'w', so
\* that a dump lands behind what the file already holds.
save_product_append(fs, name, info, outcome) ==
    CASE outcome = "ok" ->
             WriteFile(fs, FilePath(name),
                       IF FilePath(name) \in DOMAIN fs
                       THEN Json(fs[FilePath(name)].items \o info)
                       ELSE Json(info))
      [] outcome = "write" -> WriteFile(fs, FilePath(name), Truncated)
      [] OTHER -> fs

\* Mutant of save_product: versioned artifacts; a file that exists is kept and
\* the dump goes to a new file next to it.
save_product_versioned(fs, name, info, outcome) ==
    CASE outcome = "ok" ->
             IF FilePath(name) \in DOMAIN fs
             THEN WriteFile(fs, FilePath(name) \o <<".1">>, Json(info))
             ELSE WriteFile(fs, FilePath(name), Json(info))
      [] outcome = "write" -> WriteFile(fs, FilePath(name), Truncated)
      [] OTHER -> fs

\* Mutant of save_product: the file opened with mode 'x' behind a check that
\* it does not exist; an artifact that exists is kept as it is.
save_product_exclusive(fs, name, info, outcome) ==
    CASE outcome = "ok" ->
             IF FilePath(name) \in DOMAIN fs THEN fs
             ELSE WriteFile(fs, FilePath(name), Json(info))
      [] outcome = "write" -> WriteFile(fs, FilePath(name), Truncated)
      [] OTHER -> fs

save_product(fs, name, info, outcome) ==
    CASE outcome = "ok"    -> WriteFile(fs, FilePath(name), Json(info))
      [] outcome = "write" -> WriteFile(fs, FilePath(name), Truncated)
      [] OTHER             -> fs

(***************************************************************************)
(* State                                                                   *)
(***************************************************************************)

VARIABLES
    mode,       \* "seq": synchronous_script.py runs; "conc": asynchronous_script.py
    csv,        \* urls.csv: [exists, rows]; a row is a URL or BadRow
    files,      \* the directory data/: path -> content
    mpc,        \* where main is
    row,        \* 1-based number of the csv row main reads next
    pc,         \* pc[i]: where the chain (scrape call / task) of row i is
    err,        \* err[i]: what chain i failed with ("none" while it has not)
    gets,       \* gets[i]: requests begun for row i (get calls past the URL check)
    wlog,       \* wlog[i]: the files chain i opened for writing, with what it left
    out,        \* lines printed so far
    exit,       \* "running", "ok" (script ended), "error" (unhandled exception)
    outer,      \* the future asyncio.gather returned: none/pending/result/exception
    nfinished,  \* gather's count of children that have reported
    ready,      \* the event loop's FIFO of callbacks ready to run
    ntodo,      \* callbacks of the current loop iteration not yet run
    running,    \* callback being run: -1 none, 0 main's task, i chain i's task
    stopping,   \* loop.stop() was called
    loop,       \* "running" or "stopped"
    table,      \* the rows a dict comprehension iterates over (extraction alone)
    seen,       \* how many of them it has consumed
    mapping     \* the dict it has built so far

vars == <<mode, csv, files, mpc, row, pc, err, gets, wlog, out, exit,
          outer, nfinished, ready, ntodo, running, stopping, loop,
          table, seen, mapping>>

chainVars == <<pc, err, gets, wlog>>
extractVars == <<table, seen, mapping>>
loopVars == <<outer, nfinished, ready, ntodo, running, stopping, loop>>

\* A csv row whose reading raises (csv.Error, or KeyError: no 'url' column).
BadRow == "bad"

N == Len(csv.rows)
Targets == 1..N

RECURSIVE SeqsUpTo(_, _)
SeqsUpTo(S, n) ==
    IF n = 0 THEN {<<>>}
    ELSE LET shorter == SeqsUpTo(S, n - 1)
         IN shorter \cup {Append(s, x) : s \in {t \in shorter : Len(t) = n - 1}, x \in S}

\* The directory before the run: it holds an artifact of an earlier run.
StaleJson == Json(<<<<"k0", "v0">>>>)
OldFiles == [q \in {FilePath(<<"a", " ", "b">>)} |-> StaleJson]

\* A callback in the loop's ready queue: a task's step ("step", i; i = 0 is
\* main's task), gather's done-callback for chain i ("gcb", i), or
\* run_until_complete's done-callback of main's task ("stopcb", 0).
H(k, i) == [k |-> k, i |-> i]

Init ==
    /\ mode \in {"seq", "conc"}
    /\ csv \in {[exists |-> TRUE, rows |-> r] : r \in SeqsUpTo(URLS \cup {BadRow}, MaxTargets)}
               \cup {[exists |-> FALSE, rows |-> <<>>]}
    /\ files = OldFiles
    /\ mpc = "start"
    /\ row = 1
    /\ pc = [i \in Targets |-> "new"]
    /\ err = [i \in Targets |-> "none"]
    /\ gets = [i \in Targets |-> 0]
    /\ wlog = [i \in Targets |-> <<>>]
    /\ out = <<>>
    /\ exit = "running"
    /\ outer = "none"
    /\ nfinished = 0
    \* loop.run_until_complete(main()) wraps main in a task, whose first step
    \* is the only callback ready when the loop starts running.
    /\ ready = IF mode = "conc" THEN <<H("step", 0)>> ELSE <<>>
    /\ ntodo = 0
    /\ running = -1
    /\ stopping = FALSE
    /\ loop = IF mode = "conc" THEN "running" ELSE "stopped"
    \* In a run of a script the extraction is part of a chain's step.
    /\ table = <<>> /\ seen = 0 /\ mapping = <<>>

(***************************************************************************)
(* Sequential mode: synchronous_script.py                                  *)
(* An exception is caught nowhere: it ends main and the script.            *)
(***************************************************************************)

\* main, lines 24-26: the start notice is printed before the list is opened.
SeqPrintNotice ==
    /\ mode = "seq" /\ mpc = "start"
    /\ out' = Append(out, "notice")
    /\ mpc' = "open"
    /\ UNCHANGED <<extractVars, mode, csv, files, row, chainVars, exit, loopVars>>

\* main, line 27: open('urls.csv').
SeqOpenCsv ==
    /\ mode = "seq" /\ mpc = "open"
    /\ IF csv.exists
       THEN mpc' = "read" /\ exit' = exit
       ELSE mpc' = "raised" /\ exit' = "error"
    /\ UNCHANGED <<extractVars, mode, csv, files, row, chainVars, out, loopVars>>

\* main, lines 29-30: the for loop takes the next row and calls scrape on it,
\* or ends.
SeqReadRow ==
    /\ mode = "seq" /\ mpc = "read"
    /\ IF row > N
       THEN mpc' = "report" /\ exit' = exit
       ELSE IF csv.rows[row] = BadRow
            THEN mpc' = "raised" /\ exit' = "error"
            ELSE mpc' = "scrape" /\ exit' = exit
    /\ UNCHANGED <<extractVars, mode, csv, files, row, chainVars, out, loopVars>>

\* Mutant of SeqGet: a failed request is caught and the loop goes on with the
\* next row.
SeqGetSwallows ==
    /\ mode = "seq" /\ mpc = "scrape" /\ pc[row] = "new"
    /\ \E netOk \in BOOLEAN :
          IF ValidUrl(csv.rows[row]) /\ netOk
          THEN /\ pc' = [pc EXCEPT ![row] = "extract"]
               /\ gets' = [gets EXCEPT ![row] = @ + 1]
               /\ UNCHANGED <<err, mpc, row>>
          ELSE /\ pc' = [pc EXCEPT ![row] = "failed"]
               /\ err' = [err EXCEPT ![row] = IF ValidUrl(csv.rows[row]) THEN "fetch" ELSE "url"]
               /\ gets' = [gets EXCEPT ![row] = IF ValidUrl(csv.rows[row]) THEN @ + 1 ELSE @]
               /\ mpc' = "read" /\ row' = row + 1
    /\ UNCHANGED <<extractVars, mode, csv, files, exit, wlog, out, loopVars>>

\* scrape, line 15: requests.get(url).  A string that is no URL raises before
\* anything is sent; a request that was sent either fails or returns a body.
SeqGet ==
    /\ mode = "seq" /\ mpc = "scrape" /\ pc[row] = "new"
    /\ \E netOk \in BOOLEAN :
          IF ValidUrl(csv.rows[row]) /\ netOk
          THEN /\ pc' = [pc EXCEPT ![row] = "extract"]
               /\ gets' = [gets EXCEPT ![row] = @ + 1]
               /\ UNCHANGED <<err, mpc, exit>>
          ELSE /\ pc' = [pc EXCEPT ![row] = "failed"]
               /\ err' = [err EXCEPT ![row] = IF ValidUrl(csv.rows[row]) THEN "fetch" ELSE "url"]
               /\ gets' = [gets EXCEPT ![row] = IF ValidUrl(csv.rows[row]) THEN @ + 1 ELSE @]
               /\ mpc' = "raised" /\ exit' = "error"
    /\ UNCHANGED <<extractVars, mode, csv, files, row, wlog, out, loopVars>>

\* scrape, lines 16-19: parse, title, rows, mapping.
SeqExtract ==
    /\ mode = "seq" /\ mpc = "scrape" /\ pc[row] = "extract"
    /\ IF ExtractOk(Web(csv.rows[row]))
       THEN /\ pc' = [pc EXCEPT ![row] = "save"]
            /\ UNCHANGED <<err, mpc, exit>>
       ELSE /\ pc' = [pc EXCEPT ![row] = "failed"]
            /\ err' = [err EXCEPT ![row] = "parse"]
            /\ mpc' = "raised" /\ exit' = "error"
    /\ UNCHANGED <<extractVars, mode, csv, files, row, gets, wlog, out, loopVars>>

\* scrape, line 20, and save_product, lines 8-11; then back to the for loop.
SeqSave ==
    /\ mode = "seq" /\ mpc = "scrape" /\ pc[row] = "save"
    /\ \E outcome \in SaveOutcomes :
          LET page == Web(csv.rows[row])
              fs == save_product(files, book_name(page), product_info(page), outcome)
          IN /\ files' = fs
             /\ wlog' = [wlog EXCEPT ![row] =
                            IF outcome = "open" THEN @
                            ELSE Append(@, <<FilePath(book_name(page)), fs[FilePath(book_name(page))]>>)]
             /\ IF outcome = "ok"
                THEN /\ pc' = [pc EXCEPT ![row] = "done"]
                     /\ row' = row + 1
                     /\ mpc' = "read"
                     /\ UNCHANGED <<err, exit>>
                ELSE /\ pc' = [pc EXCEPT ![row] = "failed"]
                     /\ err' = [err EXCEPT ![row] = "persist"]
                     /\ mpc' = "raised" /\ exit' = "error"
                     /\ row' = row
    /\ UNCHANGED <<extractVars, mode, csv, gets, out, loopVars>>

\* main, lines 32-33: the timing line; the script ends.
SeqReport ==
    /\ mode = "seq" /\ mpc = "report"
    /\ out' = Append(out, "timing")
    /\ mpc' = "done"
    /\ exit' = "ok"
    /\ UNCHANGED <<extractVars, mode, csv, files, row, chainVars, loopVars>>

SeqNext ==
    \/ SeqPrintNotice
    \/ SeqOpenCsv
    \/ SeqReadRow
    \/ SeqGet
    \/ SeqExtract
    \/ SeqSave
    \/ SeqReport

(***************************************************************************)
(* The sequential script alone, `python synchronous_script.py`, on input   *)
(* lists of up to MaxSeqTargets rows.                                      *)
(***************************************************************************)
SeqInit ==
    /\ mode = "seq"
    /\ csv \in {[exists |-> TRUE, rows |-> r] : r \in SeqsUpTo(URLS \cup {BadRow}, MaxSeqTargets)}
               \cup {[exists |-> FALSE, rows |-> <<>>]}
    /\ files = OldFiles
    /\ mpc = "start"
    /\ row = 1
    /\ pc = [i \in Targets |-> "new"]
    /\ err = [i \in Targets |-> "none"]
    /\ gets = [i \in Targets |-> 0]
    /\ wlog = [i \in Targets |-> <<>>]
    /\ out = <<>>
    /\ exit = "running"
    /\ outer = "none"
    /\ nfinished = 0
    /\ ready = <<>>
    /\ ntodo = 0
    /\ running = -1
    /\ stopping = FALSE
    /\ loop = "stopped"
    /\ table = <<>> /\ seen = 0 /\ mapping = <<>>

SeqSpec == SeqInit /\ [][SeqNext]_vars

(***************************************************************************)
(* Concurrent mode: asynchronous_script.py                                 *)
(*                                                                         *)
(* One thread runs the asyncio event loop.  The loop works in iterations:  *)
(* it collects the I/O events that have arrived, then runs, in FIFO order  *)
(* and each to its next suspension, the callbacks that were ready when the *)
(* iteration began; a callback scheduled meanwhile runs in the next        *)
(* iteration.  A task that ends schedules its done-callbacks; loop.stop()  *)
(* takes effect at the end of the iteration it is called in.               *)
(***************************************************************************)

\* The callback the loop runs next, if it is idle and the iteration has one.
Top(k, i) ==
    /\ mode = "conc" /\ loop = "running"
    /\ running = -1 /\ ntodo > 0
    /\ Head(ready) = H(k, i)

\* Task i ended: its done-callbacks are scheduled.  gather (line 37) has
\* attached one to every task once it has been called.
TaskDone(q, i) == IF outer # "none" THEN Append(q, H("gcb", i)) ELSE q

\* The chains suspended on the network (lines 17 and 18): requests in flight.
InFlight == {i \in Targets : pc[i] = "fetch"}

\* The orders in which responses of some of the chains in S can arrive.
ArrivalOrders(S) ==
    {s \in SeqsUpTo(S, Cardinality(S)) : \A a, b \in 1..Len(s) : s[a] = s[b] => a = b}

\* One loop iteration begins (or, after loop.stop(), the loop ends and with it
\* run_until_complete, line 44, and the script).  The loop waits for I/O only
\* when nothing is ready.
LoopSelect ==
    /\ mode = "conc" /\ loop = "running"
    /\ running = -1 /\ ntodo = 0
    /\ IF stopping
       THEN /\ loop' = "stopped"
            /\ exit' = IF mpc = "done" THEN "ok" ELSE "error"
            /\ UNCHANGED <<ready, ntodo>>
       ELSE /\ \E ev \in ArrivalOrders(InFlight) :
                  /\ ready # <<>> \/ ev # <<>>
                  /\ ready' = ready \o [j \in 1..Len(ev) |-> H("step", ev[j])]
                  /\ ntodo' = Len(ready')
            /\ UNCHANGED <<loop, exit>>
    /\ UNCHANGED <<extractVars, mode, csv, files, mpc, row, chainVars, out,
                   outer, nfinished, running, stopping>>

\* An exception leaves main: its task ends, which schedules
\* run_until_complete's callback.
MainRaises(q) ==
    /\ mpc' = "raised"
    /\ ready' = Append(q, H("stopcb", 0))
    /\ running' = -1

\* main's task takes its first step: line 27.
MainStart ==
    /\ Top("step", 0) /\ mpc = "start"
    /\ ready' = Tail(ready) /\ ntodo' = ntodo - 1
    /\ running' = 0
    /\ mpc' = "open"
    /\ UNCHANGED <<extractVars, mode, csv, files, row, chainVars, out, exit,
                   outer, nfinished, stopping, loop>>

\* main, line 30: open('urls.csv').
MainOpenCsv ==
    /\ mode = "conc" /\ running = 0 /\ mpc = "open"
    /\ IF csv.exists
       THEN mpc' = "read" /\ UNCHANGED <<ready, running>>
       ELSE MainRaises(ready)
    /\ UNCHANGED <<extractVars, mode, csv, files, row, chainVars, out, exit,
                   outer, nfinished, ntodo, stopping, loop>>

\* main, lines 32-34: the next row becomes a task; create_task schedules the
\* task's first step without running it.
MainCreateTask ==
    /\ mode = "conc" /\ running = 0 /\ mpc = "read" /\ row <= N
    /\ IF csv.rows[row] = BadRow
       THEN MainRaises(ready) /\ UNCHANGED <<pc, row>>
       ELSE /\ pc' = [pc EXCEPT ![row] = "created"]
            /\ ready' = Append(ready, H("step", row))
            /\ row' = row + 1
            /\ UNCHANGED <<mpc, running>>
    /\ UNCHANGED <<extractVars, mode, csv, files, err, gets, wlog, out, exit,
                   outer, nfinished, ntodo, stopping, loop>>

\* main, lines 36-37: the start notice, then await asyncio.gather(*tasks).
\* gather of no task returns a finished future, which does not suspend main.
MainGather ==
    /\ mode = "conc" /\ running = 0 /\ mpc = "read" /\ row > N
    /\ out' = Append(out, "notice")
    /\ IF N = 0
       THEN outer' = "result" /\ mpc' = "report" /\ running' = 0
       ELSE outer' = "pending" /\ mpc' = "gather" /\ running' = -1
    /\ UNCHANGED <<extractVars, mode, csv, files, row, chainVars, exit,
                   nfinished, ready, ntodo, stopping, loop>>

\* gather's future is done: main's task is resumed at line 37, where the
\* future's exception, if it holds one, is raised.
MainWakeup ==
    /\ Top("step", 0) /\ mpc = "gather"
    /\ ntodo' = ntodo - 1
    /\ IF outer = "exception"
       THEN MainRaises(Tail(ready))
       ELSE mpc' = "report" /\ running' = 0 /\ ready' = Tail(ready)
    /\ UNCHANGED <<extractVars, mode, csv, files, row, chainVars, out, exit,
                   outer, nfinished, stopping, loop>>

\* main, lines 39-40: the timing line; main returns and its task ends.
MainReport ==
    /\ mode = "conc" /\ running = 0 /\ mpc = "report"
    /\ out' = Append(out, "timing")
    /\ mpc' = "done"
    /\ ready' = Append(ready, H("stopcb", 0))
    /\ running' = -1
    /\ UNCHANGED <<extractVars, mode, csv, files, row, chainVars, exit,
                   outer, nfinished, ntodo, stopping, loop>>

\* run_until_complete's callback (line 44): loop.stop().
StopCallback ==
    /\ Top("stopcb", 0)
    /\ ready' = Tail(ready) /\ ntodo' = ntodo - 1
    /\ stopping' = TRUE
    /\ UNCHANGED <<extractVars, mode, csv, files, mpc, row, chainVars, out, exit,
                   outer, nfinished, running, loop>>

\* Mutant of GatherCallback: gather called with return_exceptions=True, a
\* failed child counting as a result.
GatherCallbackReturnExceptions(i) ==
    /\ Top("gcb", i)
    /\ ntodo' = ntodo - 1
    /\ nfinished' = nfinished + 1
    /\ IF outer = "pending" /\ nfinished + 1 = N
       THEN outer' = "result" /\ ready' = Append(Tail(ready), H("step", 0))
       ELSE outer' = outer /\ ready' = Tail(ready)
    /\ UNCHANGED <<extractVars, mode, csv, files, mpc, row, chainVars, out, exit,
                   running, stopping, loop>>

\* gather's done-callback for child i: the first child that ends with an
\* exception settles the gather future with it at once (return_exceptions is
\* not set); the last child to end settles it with the results.  Settling
\* the future schedules the step of the task awaiting it, main's.
GatherCallback(i) ==
    /\ Top("gcb", i)
    /\ ntodo' = ntodo - 1
    /\ nfinished' = nfinished + 1
    /\ IF outer # "pending"
       THEN outer' = outer /\ ready' = Tail(ready)
       ELSE IF pc[i] = "failed"
            THEN outer' = "exception" /\ ready' = Append(Tail(ready), H("step", 0))
            ELSE IF nfinished + 1 = N
                 THEN outer' = "result" /\ ready' = Append(Tail(ready), H("step", 0))
                 ELSE outer' = outer /\ ready' = Tail(ready)
    /\ UNCHANGED <<extractVars, mode, csv, files, mpc, row, chainVars, out, exit,
                   running, stopping, loop>>

\* An exception leaves scrape in task i: the task ends with it.  Leaving the
\* two `async with` blocks (lines 16-17) on the way changes nothing here.
ScrapeRaises(i, what, q) ==
    /\ pc' = [pc EXCEPT ![i] = "failed"]
    /\ err' = [err EXCEPT ![i] = what]
    /\ ready' = TaskDone(q, i)
    /\ running' = -1

\* Mutant of ScrapeStart: a concurrency cap of one request; a task that finds
\* a request in flight waits for a later loop iteration.
ScrapeStartCapped(i) ==
    /\ Top("step", i) /\ pc[i] = "created"
    /\ ntodo' = ntodo - 1
    /\ IF \E j \in Targets : pc[j] \in {"fetch", "save"}
       THEN /\ ready' = Append(Tail(ready), H("step", i))
            /\ UNCHANGED <<pc, err, gets, running>>
       ELSE IF ValidUrl(csv.rows[i])
            THEN /\ pc' = [pc EXCEPT ![i] = "fetch"]
                 /\ gets' = [gets EXCEPT ![i] = @ + 1]
                 /\ ready' = Tail(ready)
                 /\ UNCHANGED <<err, running>>
            ELSE /\ ScrapeRaises(i, "url", Tail(ready))
                 /\ UNCHANGED gets
    /\ UNCHANGED <<extractVars, mode, csv, files, mpc, row, wlog, out, exit,
                   outer, nfinished, stopping, loop>>

\* Mutant of ScrapeStart: a row whose URL string an earlier row carries sends
\* no request of its own; its task ends at once.
ScrapeStartDeduplicates(i) ==
    /\ Top("step", i) /\ pc[i] = "created"
    /\ ntodo' = ntodo - 1
    /\ IF \E j \in 1..(i - 1) : csv.rows[j] = csv.rows[i]
       THEN /\ pc' = [pc EXCEPT ![i] = "done"]
            /\ ready' = TaskDone(Tail(ready), i)
            /\ UNCHANGED <<err, gets, running>>
       ELSE IF ValidUrl(csv.rows[i])
            THEN /\ pc' = [pc EXCEPT ![i] = "fetch"]
                 /\ gets' = [gets EXCEPT ![i] = @ + 1]
                 /\ ready' = Tail(ready)
                 /\ UNCHANGED <<err, running>>
            ELSE /\ ScrapeRaises(i, "url", Tail(ready))
                 /\ UNCHANGED gets
    /\ UNCHANGED <<extractVars, mode, csv, files, mpc, row, wlog, out, exit,
                   outer, nfinished, stopping, loop>>

\* Task i takes its first step, lines 16-17: the session is created and
\* session.get(url) either raises at once (not a URL) or sends the request
\* and suspends the task until the response arrives.
ScrapeStart(i) ==
    /\ Top("step", i) /\ pc[i] = "created"
    /\ ntodo' = ntodo - 1
    /\ IF ValidUrl(csv.rows[i])
       THEN /\ pc' = [pc EXCEPT ![i] = "fetch"]
            /\ gets' = [gets EXCEPT ![i] = @ + 1]
            /\ ready' = Tail(ready)
            /\ UNCHANGED <<err, running>>
       ELSE /\ ScrapeRaises(i, "url", Tail(ready))
            /\ UNCHANGED gets
    /\ UNCHANGED <<extractVars, mode, csv, files, mpc, row, wlog, out, exit,
                   outer, nfinished, stopping, loop>>

\* Mutant of ScrapeResumes: the task yields to the loop between the parsing
\* and save_product (an `await asyncio.sleep(0)` before line 23).
ScrapeResumesYields(i) ==
    /\ Top("step", i) /\ pc[i] = "fetch"
    /\ ntodo' = ntodo - 1
    /\ \E netOk \in BOOLEAN :
          IF netOk /\ ExtractOk(Web(csv.rows[i]))
          THEN /\ pc' = [pc EXCEPT ![i] = "save"]
               /\ running' = -1
               /\ ready' = Append(Tail(ready), H("step", i))
               /\ err' = err
          ELSE ScrapeRaises(i, IF netOk THEN "parse" ELSE "fetch", Tail(ready))
    /\ UNCHANGED <<extractVars, mode, csv, files, mpc, row, gets, wlog, out, exit,
                   outer, nfinished, stopping, loop>>

\* Task i is resumed while it waits for the response (session.get, line 17,
\* then resp.text(), line 18; how many loop iterations the two awaits take is
\* the network's choice, LoopSelect).  Either the request has failed, or the
\* body is there and the task goes on, without suspending, to lines 19-22:
\* parse, title, rows, mapping.
ScrapeResumes(i) ==
    /\ Top("step", i) /\ pc[i] = "fetch"
    /\ ntodo' = ntodo - 1
    /\ \E netOk \in BOOLEAN :
          IF netOk /\ ExtractOk(Web(csv.rows[i]))
          THEN /\ pc' = [pc EXCEPT ![i] = "save"]
               /\ running' = i
               /\ ready' = Tail(ready)
               /\ err' = err
          ELSE ScrapeRaises(i, IF netOk THEN "parse" ELSE "fetch", Tail(ready))
    /\ UNCHANGED <<extractVars, mode, csv, files, mpc, row, gets, wlog, out, exit,
                   outer, nfinished, stopping, loop>>

\* scrape, line 23, and save_product, lines 9-12: a coroutine that awaits
\* nothing, so it runs within the step that parsed the body; scrape then
\* returns and task i ends.
ScrapeSave(i) ==
    /\ mode = "conc" /\ running = i /\ pc[i] = "save"
    /\ \E outcome \in SaveOutcomes :
          LET page == Web(csv.rows[i])
              fs == save_product(files, book_name(page), product_info(page), outcome)
          IN /\ files' = fs
             /\ wlog' = [wlog EXCEPT ![i] =
                            IF outcome = "open" THEN @
                            ELSE Append(@, <<FilePath(book_name(page)), fs[FilePath(book_name(page))]>>)]
             /\ IF outcome = "ok"
                THEN /\ pc' = [pc EXCEPT ![i] = "done"]
                     /\ ready' = TaskDone(ready, i)
                     /\ running' = -1
                     /\ err' = err
                ELSE ScrapeRaises(i, "persist", ready)
    /\ UNCHANGED <<extractVars, mode, csv, mpc, row, gets, out, exit,
                   outer, nfinished, ntodo, stopping, loop>>

ConcNext ==
    \/ LoopSelect
    \/ MainStart
    \/ MainOpenCsv
    \/ MainCreateTask
    \/ MainGather
    \/ MainWakeup
    \/ MainReport
    \/ StopCallback
    \/ \E i \in Targets : GatherCallback(i)
    \/ \E i \in Targets : ScrapeStart(i)
    \/ \E i \in Targets : ScrapeResumes(i)
    \/ \E i \in Targets : ScrapeSave(i)

Next == SeqNext \/ ConcNext

Spec == Init /\ [][Next]_vars

(***************************************************************************)
(* The extraction alone                                                    *)
(* rows = soup.select('.table.table-striped tr')                           *)
(* product_info = {row.th.text: row.td.text for row in rows}               *)
(* run on every attribute table of up to MaxRows well-formed rows, one row *)
(* of the comprehension at a time.  (A row without th or td raises         *)
(* AttributeError: that path is part of SeqExtract and ScrapeResumes.)     *)
(***************************************************************************)

HeaderTexts == {"k1", "k2", "k3"}
CellTexts == {"v1", "v2"}

\* The tables whose rows all have a header cell and a data cell.
Tables == SeqsUpTo({Row(Cell(k), Cell(v)) : k \in HeaderTexts, v \in CellTexts}, MaxRows)

ExtractInit ==
    /\ table \in Tables
    /\ seen = 0
    /\ mapping = <<>>
    \* no script is running
    /\ mode = "seq"
    /\ csv = [exists |-> FALSE, rows |-> <<>>]
    /\ files = OldFiles
    /\ mpc = "start"
    /\ row = 1
    /\ pc = <<>> /\ err = <<>> /\ gets = <<>> /\ wlog = <<>>
    /\ out = <<>>
    /\ exit = "running"
    /\ outer = "none"
    /\ nfinished = 0
    /\ ready = <<>>
    /\ ntodo = 0
    /\ running = -1
    /\ stopping = FALSE
    /\ loop = "stopped"

\* The comprehension takes the next row: product_info[row.th.text] = row.td.text
ExtractRow ==
    /\ seen < Len(table)
    /\ mapping' = DictSet(mapping, table[seen + 1].th.text, table[seen + 1].td.text)
    /\ seen' = seen + 1
    /\ UNCHANGED <<table, mode, csv, files, mpc, row, chainVars, out, exit, loopVars>>

ExtractNext == ExtractRow

ExtractSpec == ExtractInit /\ [][ExtractNext]_vars

(***************************************************************************)
(* Vocabulary of the properties                                            *)
(***************************************************************************)

Conc == mode = "conc"
Sequential == mode = "seq"

\* The input list can be read to its end: the file exists, no row raises.
ListReadable == csv.exists /\ \A i \in Targets : csv.rows[i] # BadRow

\* The script has ended (normally or with an unhandled exception).
Ended == exit # "running"

Finished(i) == pc[i] \in {"done", "failed"}

\* What the chain of row i has to deliver: its document, the path of its
\* artifact and the mapping in it (tabulated per URL).
PathByUrl == [u \in URLS |-> FilePath(book_name(Web(u)))]
InfoByUrl == [u \in URLS |-> product_info(Web(u))]
ExtractableUrl == [u \in URLS |-> ValidUrl(u) /\ ExtractOk(Web(u))]

PageOf(i) == Web(csv.rows[i])
PathOf(i) == PathByUrl[csv.rows[i]]
InfoOf(i) == InfoByUrl[csv.rows[i]]

Printed(line) == \E j \in 1..Len(out) : out[j] = line

(***************************************************************************)
(* C1. In concurrent mode the aggregate wait (asyncio.gather) does not     *)
(* end, by returning or by raising, while a chain is unfinished: whenever  *)
(* the gather future is settled, every chain has completed or failed.      *)
(***************************************************************************)
C1_GatherEndsAfterAllChains ==
    (Conc /\ outer \in {"result", "exception"}) => \A i \in Targets : Finished(i)

(***************************************************************************)
(* C2. In concurrent mode a fetch failure of one chain stops no sibling:   *)
(* when the script has ended after some chain failed in its fetch, every   *)
(* other chain has run to its own end, so that each one whose own steps    *)
(* succeed has written its artifact.                                       *)
(***************************************************************************)
C2_FetchFailureStopsNoSibling ==
    (Conc /\ Ended /\ ListReadable) =>
        \A j \in Targets :
            err[j] = "fetch" =>
                \A i \in Targets \ {j} : pc[i] = "done" \/ err[i] # "none"

C3_WitnessOk == exit = "ok" /\ N = MaxTargets /\ Conc

DistinctTitles ==
    \A i, j \in Targets : i # j => book_name(PageOf(i)) # book_name(PageOf(j))

DistinctPaths == \A i, j \in Targets : i # j => PathOf(i) # PathOf(j)

\* The files the run has opened for writing.
Produced == {wlog[i][1][1] : i \in {t \in Targets : wlog[t] # <<>>}}

\* The directory after rows 1..k have been written one after the other, in
\* list order, each write succeeding.
RECURSIVE InListOrder(_)
InListOrder(k) ==
    IF k = 0 THEN OldFiles
    ELSE WriteFile(InListOrder(k - 1), PathOf(k), Json(InfoOf(k)))

\* C4 as claimed: on a list whose chains all succeed and whose titles are
\* pairwise distinct, concurrent mode ends with exactly N artifacts, the ones
\* sequential mode leaves.
C4_DistinctTitlesGiveNArtifacts ==
    (Conc /\ exit = "ok" /\ DistinctTitles) =>
        /\ Cardinality(Produced) = N
        /\ files = InListOrder(N)

\* C4 as amended: on a list whose chains all succeed and whose output file
\* names (titles with spaces replaced by underscores) are pairwise distinct,
\* a run ends with exactly N artifacts and with the directory that writing
\* the rows in list order gives, in sequential mode and, under every
\* interleaving of the chains, in concurrent mode.
C4_DistinctPathsGiveNArtifacts ==
    (exit = "ok" /\ DistinctPaths) =>
        /\ Cardinality(Produced) = N
        /\ files = InListOrder(N)
        /\ \A i \in Targets : files[PathOf(i)] = Json(InfoOf(i))

\* A concurrent run of a full-length list with distinct file names has ended
\* normally, one of its files replacing the artifact of an earlier run.
C4_Witness ==
    /\ Conc /\ exit = "ok" /\ N = MaxTargets /\ N > 1 /\ DistinctPaths
    /\ \E i \in Targets : PathOf(i) \in DOMAIN OldFiles

(***************************************************************************)
(* C5. Sequential mode processes the Targets one at a time in list order:  *)
(* a chain has begun (its fetch included) only if every earlier chain has  *)
(* completed, and after a chain has failed no later Target is fetched or   *)
(* persisted.                                                              *)
(***************************************************************************)
Untouched(j) == pc[j] = "new" /\ gets[j] = 0 /\ wlog[j] = <<>>

C5_SequentialOrder ==
    Sequential =>
        \A i, j \in Targets :
            i < j =>
                /\ ~Untouched(j) => pc[i] = "done"
                /\ pc[i] = "failed" => (Untouched(j) /\ mpc = "raised" /\ exit = "error")

\* The second Target's request is out (or refused) after the first Target's
\* chain has completed, and its chain has failed.
C5_Witness ==
    /\ Sequential /\ N = MaxTargets /\ N > 1
    /\ pc[N - 1] = "done" /\ pc[N] = "failed" /\ gets[N] = 1

(***************************************************************************)
(* C6. A document with the title region but without attribute-table rows   *)
(* makes the extraction fail: its chain never completes and no artifact    *)
(* (in particular none holding an empty mapping) is written for it.        *)
(***************************************************************************)
NoTable(i) == book_name_ok(PageOf(i)) /\ PageOf(i).rows = <<>>

C6_MissingTableIsFatal ==
    \A i \in Targets :
        (csv.rows[i] # BadRow /\ NoTable(i)) => (pc[i] # "done" /\ wlog[i] = <<>>)

(***************************************************************************)
(* C7. A chain that was started in concurrent mode is never left pending:  *)
(* when the script has ended (here: after main got as far as the aggregate *)
(* wait, so that only the chains themselves can have failed), every chain  *)
(* that took its first step has completed or failed.                       *)
(***************************************************************************)
C7_StartedChainsEnd ==
    (Conc /\ Ended /\ ListReadable) => \A i \in Targets : pc[i] \notin {"new", "created"} => Finished(i)

(***************************************************************************)
(* C8. Two Targets with the same title: once both chains have completed    *)
(* (and no third chain has written to the same path), the one artifact at  *)
(* the title's path holds exactly the complete mapping of one of the two,  *)
(* never a merge or mixture.  In concurrent mode it can be the mapping of  *)
(* either, depending on which response arrives last.                       *)
(***************************************************************************)
Extractable(i) == csv.rows[i] # BadRow /\ ExtractableUrl[csv.rows[i]]

SameTitle(i, j) ==
    /\ i # j /\ Extractable(i) /\ Extractable(j)
    /\ book_name(PageOf(i)) = book_name(PageOf(j))

C8_OneOfTheTwoMappings ==
    \A i, j \in Targets :
        ( /\ pc[i] = "done" /\ pc[j] = "done"
          /\ SameTitle(i, j)
          /\ \A k \in Targets \ {i, j} : wlog[k] = <<>> \/ wlog[k][1][1] # PathOf(i) )
        => /\ PathOf(i) \in DOMAIN files
           /\ files[PathOf(i)] \in {Json(InfoOf(i)), Json(InfoOf(j))}

\* Concurrent mode, both chains completed, and the artifact holds the mapping
\* of the Target listed first: its response arrived last.
C8_Witness ==
    /\ Conc
    /\ \E i, j \in Targets :
          /\ i < j /\ pc[i] = "done" /\ pc[j] = "done"
          /\ SameTitle(i, j) /\ InfoOf(i) # InfoOf(j)
          /\ files[PathOf(i)] = Json(InfoOf(i))

\* The other order: the artifact holds the mapping of the Target listed last.
C8_WitnessListOrder ==
    /\ Conc
    /\ \E i, j \in Targets :
          /\ i < j /\ pc[i] = "done" /\ pc[j] = "done"
          /\ SameTitle(i, j) /\ InfoOf(i) # InfoOf(j)
          /\ files[PathOf(i)] = Json(InfoOf(j))

(***************************************************************************)
(* C9. Concurrent mode has no batching and no cap.  When main reaches the  *)
(* aggregate wait a task exists for every row; every task takes its first  *)
(* step (sends its request) before any response is processed, so no fetch  *)
(* waits for another chain to finish; and all N requests can be in flight  *)
(* at once (the witness).                                                  *)
(***************************************************************************)
PastFirstStep(i) == pc[i] \in {"save", "done"} \/ err[i] \in {"fetch", "parse", "persist"}

C9_NoConcurrencyCap ==
    Conc =>
        /\ outer # "none" => \A i \in Targets : pc[i] # "new"
        /\ (\E i \in Targets : PastFirstStep(i)) => \A j \in Targets : pc[j] # "created"
        /\ \A i \in Targets : pc[i] = "fetch" => gets[i] = 1

\* Every row of a full-length list has its request outstanding.
C9_Witness ==
    /\ Conc /\ N = MaxTargets /\ N > 1
    /\ \A i \in Targets : pc[i] = "fetch"
    /\ Cardinality(InFlight) = N

(***************************************************************************)
(* C10. Artifact writes.                                                   *)
(***************************************************************************)

\* p is data/<title with every space replaced by an underscore and nothing
\* else changed>.json
IsArtifactPath(p, title) ==
    /\ Len(p) = Len(title) + 2
    /\ p[1] = "data/" /\ p[Len(p)] = ".json"
    /\ \A j \in 1..Len(title) : p[j + 1] = (IF title[j] = " " THEN "_" ELSE title[j])

\* At most one write per Target; a completed chain has written exactly one
\* file, at the path of its title, holding exactly its document's mapping; a
\* chain that has not reached its persist step, or failed before it (not a
\* URL, fetch failure, missing title region or cell), has written nothing.
C10_Writes ==
    \A i \in Targets :
        /\ Len(wlog[i]) <= 1
        /\ pc[i] = "done" =>
              /\ Len(wlog[i]) = 1
              /\ IsArtifactPath(wlog[i][1][1], PageOf(i).h1)
              /\ wlog[i][1][2] = [complete |-> TRUE, items |-> InfoOf(i)]
              /\ wlog[i][1][1] \in DOMAIN files
        /\ pc[i] \in {"new", "created", "fetch"} => wlog[i] = <<>>
        /\ err[i] \in {"url", "fetch", "parse"} => wlog[i] = <<>>
        /\ (csv.rows[i] # BadRow /\ PageOf(i).region # "h1") => wlog[i] = <<>>

Fails(i) == pc[i] # "failed" /\ pc'[i] = "failed"

\* The directory changes only in the step that ends a chain's persist step,
\* and then only at that chain's path.
WritesOnlyOwnFile ==
    files' # files =>
        \E i \in Targets :
            /\ pc[i] = "save" /\ pc'[i] \in {"done", "failed"}
            /\ DOMAIN files' = DOMAIN files \cup {PathOf(i)}
            /\ \A q \in DOMAIN files : q # PathOf(i) => files'[q] = files[q]
            /\ pc'[i] = "done" => files'[PathOf(i)] = Json(InfoOf(i))
            /\ pc'[i] = "failed" => files'[PathOf(i)] = Truncated

\* C10 as claimed: ... and a failed chain leaves every existing artifact
\* unchanged.
C10_FailedChainChangesNothing ==
    /\ []C10_Writes
    /\ [][\A i \in Targets : Fails(i) => files' = files]_vars

\* C10 as amended: ... and a chain that fails in its fetch or its extraction
\* leaves every artifact unchanged; a chain that fails in its persist step
\* leaves every artifact but its own unchanged, its own file being either
\* untouched (open refused) or left truncated (open succeeded, dump failed).
C10_FailedChainChangesOwnFileAtMost ==
    /\ []C10_Writes
    /\ [][ /\ WritesOnlyOwnFile
           /\ \A i \in Targets :
                 (Fails(i) /\ err'[i] \in {"url", "fetch", "parse"}) => files' = files ]_vars

\* A chain has completed on a title with two spaces, next to a chain that
\* failed in its extraction.
C10_Witness ==
    \E i, j \in Targets :
        /\ pc[i] = "done" /\ Len(wlog[i]) = 1 /\ InfoOf(i) # <<>>
        /\ \E a, b \in 1..Len(PageOf(i).h1) : a # b /\ PageOf(i).h1[a] = " " /\ PageOf(i).h1[b] = " "
        /\ err[j] = "parse"

(***************************************************************************)
(* C11. The extracted mapping of a well-formed attribute table: its key    *)
(* set is the set of the rows' header-cell texts, each key once; the keys  *)
(* stand in the order in which they first occur in the document; and the   *)
(* value of a key is the data-cell text of the last row with that header   *)
(* (last duplicate wins).  This holds after every row consumed, and the    *)
(* mapping built from all rows is the one the scripts' chains persist.     *)
(***************************************************************************)
Headers(n) == {table[j].th.text : j \in 1..n}

FirstAt(k) == CHOOSE j \in 1..Len(table) :
                 table[j].th.text = k /\ \A h \in 1..(j - 1) : table[h].th.text # k

LastAt(k, n) == CHOOSE j \in 1..n :
                   table[j].th.text = k /\ \A h \in (j + 1)..n : table[h].th.text # k

C11_KeysOrderLastWins ==
    /\ DictKeys(mapping) = Headers(seen)
    /\ Len(mapping) = Cardinality(Headers(seen))
    /\ \A a, b \in 1..Len(mapping) :
          a < b => FirstAt(mapping[a][1]) < FirstAt(mapping[b][1])
    /\ \A a \in 1..Len(mapping) :
          mapping[a][2] = table[LastAt(mapping[a][1], seen)].td.text
    /\ seen = Len(table) => mapping = product_info(Page("h1", <<"t">>, table))

\* A whole table has been consumed whose first and last row share a header,
\* with different values, around a row with another header.
C11_Witness ==
    /\ seen = Len(table) /\ Len(table) = MaxRows /\ MaxRows >= 3
    /\ table[1].th.text = table[Len(table)].th.text
    /\ table[1].td.text # table[Len(table)].td.text
    /\ table[2].th.text # table[1].th.text
    /\ Len(mapping) = Cardinality(Headers(Len(table)))
    /\ mapping[1] = <<table[1].th.text, table[Len(table)].td.text>>

(***************************************************************************)
(* C12. Every row of the input list causes at most one HTTP GET during a   *)
(* run, and exactly one in a run that completes.  A chain that is past its *)
(* fetch, or that failed in or after it, has sent exactly one request: a   *)
(* failed fetch is not retried.  Rows carrying the same URL string are not *)
(* deduplicated: each has its own chain and its own request (the witness). *)
(***************************************************************************)
C12_OneGetPerRow ==
    \A i \in Targets :
        /\ gets[i] <= 1
        /\ pc[i] \in {"fetch", "extract", "save", "done"} => gets[i] = 1
        /\ err[i] \in {"fetch", "parse", "persist"} => (gets[i] = 1 /\ pc[i] = "failed")
        /\ pc[i] \in {"new", "created"} \/ err[i] = "url" => gets[i] = 0
        /\ exit = "ok" => gets[i] = 1

\* A run over a list whose rows all carry the same URL string has completed:
\* every row has had its own request and its own write.
C12_Witness ==
    /\ exit = "ok" /\ N = MaxTargets /\ N > 1
    /\ \A i, j \in Targets : csv.rows[i] = csv.rows[j]
    /\ \A i \in Targets : gets[i] = 1 /\ Len(wlog[i]) = 1

\* A run has ended on a failed fetch, which had its one request.
C12_WitnessNoRetry ==
    /\ Ended /\ \E i \in Targets : err[i] = "fetch" /\ gets[i] = 1

(***************************************************************************)
(* C13. An input-list error (urls.csv missing, or a row that cannot be     *)
(* read) aborts the run before any processing: once main has raised it, no *)
(* request has been begun and no file has been written for any Target, in  *)
(* either mode.                                                            *)
(***************************************************************************)

\* main has ended with the exception of open('urls.csv') or of reading a row.
ListErrorRaised ==
    /\ mpc = "raised"
    /\ ~csv.exists \/ (row <= N /\ csv.rows[row] = BadRow)

C13_ListErrorBeforeAnyProcessing ==
    ListErrorRaised =>
        /\ \A i \in Targets : gets[i] = 0 /\ wlog[i] = <<>>
        /\ files = OldFiles

(***************************************************************************)
(* C14. Running the full chain twice on the same Target, the remote        *)
(* document unchanged, is idempotent.  When a chain completes for a URL    *)
(* for which another chain has completed before, it has written the same   *)
(* file name with the same content as the first; the set of artifacts is   *)
(* the same as before it; and if the artifact was still as the first run   *)
(* left it, every artifact's content is the same as before it.             *)
(***************************************************************************)
SameTarget(i, j) == i # j /\ csv.rows[i] = csv.rows[j]

Completes(i) == pc[i] = "save" /\ pc'[i] = "done"

C14_SecondRunChangesNothing ==
    [][ \A i, j \in Targets :
           (Completes(i) /\ SameTarget(i, j) /\ pc[j] = "done") =>
               /\ wlog'[i] = wlog[j]
               /\ DOMAIN files' = DOMAIN files
               /\ files'[PathOf(i)] = wlog[j][1][2]
               /\ files[PathOf(j)] = wlog[j][1][2] => files' = files ]_vars

\* Two chains have completed for the same URL, on a document with a mapping
\* that is not empty and a title that has a space.
C14_Witness ==
    \E i, j \in Targets :
        /\ SameTarget(i, j) /\ pc[i] = "done" /\ pc[j] = "done"
        /\ wlog[i] = wlog[j] /\ Len(wlog[i]) = 1
        /\ files[PathOf(i)] = Json(InfoOf(i))
        /\ InfoOf(i) # <<>>
        /\ PathOf(i) # <<"data/">> \o book_name(PageOf(i)) \o <<".json">>

(***************************************************************************)
(* C15. In concurrent mode a chain is suspended only in its fetch: a chain *)
(* that has started and not ended either waits for the network or is the   *)
(* callback the loop is running.  A chain that has extracted its mapping   *)
(* holds the thread, and the next step of the run is the end of its own    *)
(* file write: no other chain, nor main, nor the loop, takes a step in     *)
(* between.                                                                *)
(***************************************************************************)
C15_SuspendedOnlyInFetch ==
    Conc =>
        \A i \in Targets :
            /\ pc[i] # "extract"
            /\ pc[i] = "save" => running = i
            /\ (pc[i] \notin {"new", "created", "done", "failed"} /\ running # i) => pc[i] = "fetch"

C15_NothingBetween ==
    \A i \in Targets :
        (Conc /\ pc[i] = "save") =>
            /\ pc'[i] \in {"done", "failed"}
            /\ Len(wlog'[i]) = Len(wlog[i]) + 1
            /\ \A j \in Targets \ {i} : pc'[j] = pc[j] /\ wlog'[j] = wlog[j]
            /\ UNCHANGED <<gets, mpc, row, out, outer, nfinished, ntodo, stopping, loop, exit>>

Started(i) == pc[i] \notin {"new", "created"}

C16_ChainsStartAtTheGather ==
    Conc =>
        /\ \A i \in Targets :
              Started(i) =>
                  /\ row > N
                  /\ \A j \in Targets : pc[j] # "new"
                  /\ Printed("notice")
                  /\ outer # "none"
        /\ ListErrorRaised => \A i \in 1..(row - 1) : pc[i] = "created"

(***************************************************************************)
(* C17. Title collisions in sequential mode.                               *)
(***************************************************************************)
Title(i) == book_name(PageOf(i))

\* The last row of the list with the title, or with the file name, of row i.
LastSameTitle(i) ==
    CHOOSE k \in Targets : Title(k) = Title(i) /\ \A h \in Targets : Title(h) = Title(i) => h <= k

LastSamePath(i) ==
    CHOOSE k \in Targets : PathOf(k) = PathOf(i) /\ \A h \in Targets : PathOf(h) = PathOf(i) => h <= k

\* C17 as claimed: when several Targets of the list yield the same title and
\* the sequential run completes, the artifact at that title's path holds the
\* mapping of the last of them in the list.
C17_LastSameTitleWins ==
    (Sequential /\ exit = "ok") =>
        \A i \in Targets :
            (\E j \in Targets \ {i} : Title(j) = Title(i)) =>
                files[PathOf(i)] = Json(InfoOf(LastSameTitle(i)))

\* C17 as amended: when several Targets of the list yield the same output
\* file name (the same title once every space is an underscore) and the
\* sequential run completes, the artifact at that path holds the mapping of
\* the last of them in the list; so does the artifact of a Target that shares
\* its file name with no other.
C17_LastSamePathWins ==
    (Sequential /\ exit = "ok") =>
        \A i \in Targets :
            /\ PathOf(i) \in DOMAIN files
            /\ files[PathOf(i)] = Json(InfoOf(LastSamePath(i)))

\* A sequential run has completed on a list in which two Targets with the
\* same title are followed by one with another title and the same file name:
\* the artifact holds the mapping of the third.
C17_Witness ==
    /\ Sequential /\ exit = "ok"
    /\ \E i, j, k \in Targets :
          /\ i < j /\ j < k
          /\ Title(i) = Title(j) /\ Title(k) # Title(i) /\ PathOf(k) = PathOf(i)
          /\ InfoOf(i) # InfoOf(j) /\ InfoOf(j) # InfoOf(k) /\ InfoOf(i) # InfoOf(k)
          /\ files[PathOf(i)] = Json(InfoOf(k))

====
